---- MODULE Spec2Model ----
(***************************************************************************)
(* Notification dispatch and integration-credential routing of the         *)
(* careops platform: the route handlers that commit a primary row and then *)
(* notify by email / SMS / calendar, the three channel senders, the        *)
(* configuration routes that create and update Integration rows, and the   *)
(* reminder sweep.  Every handler is one atomic action (one HTTP request). *)
(* Time is counted in minutes (UTC).                                       *)
(***************************************************************************)
EXTENDS Integers, Sequences, FiniteSets, TLC

\* ------------------------------------------------------------------ bounds
\* Work done in one run: an HTTP request counts 3, a sweep run or a minute
\* of the clock counts 1 (caps every table and counter).
MaxWork == 7
\* Minutes the clock may advance.
MaxNow == 1
\* Rows the services table may hold.
MaxServices == 2

\* ------------------------------------------------------- program constants
REMINDER_START_HOURS == 23
REMINDER_END_HOURS == 25

\* --------------------------------------------------------------- value sets
None == 0
NoneStr == "None"

OwnerEmails == {"owner@x.com"}
StaffEmails == {"staff@x.com", "owner@x.com"}
ContactEmails == {"a@b.com"}
Phones == {"+15550100"}
ApiKeys == {"valid", "invalid"}
WorkspaceIds == 1..(Cardinality(OwnerEmails) + 1)
ServiceIds == {1}
\* booking_date values, in minutes: now+23h, now+25h and now+25h1m at
\* now = 0, which are now+22h59m, now+24h59m and now+25h at now = 1.
BookingDates == {1380, 1500, 1501}
\* What the network and the provider do with one API call.
ProviderBehaviours == {"accept", "reject", "transport_error"}
StatusInputs == {"pending", "confirmed", "completed", "cancelled", "no_show"}
ReplyChannels == {"email", "sms"}

VARIABLES
    settings,       \* app.config.settings: the keys of the process environment
    users,          \* users table: sequence of rows
    workspaces,     \* workspaces table: row id -> row
    integrations,   \* integrations table: row id -> row
    services,       \* services table: set of ids
    contacts,       \* contacts table: row id -> row
    conversations,  \* conversations table: row id -> row
    messages,       \* messages table: row id -> row
    bookings,       \* bookings table: row id -> row
    now,            \* datetime.now(timezone.utc), in minutes
    reminders,      \* booking id -> send_email invocations made by sweeps
    work,           \* work done so far (see MaxWork)
    lastOp,         \* the last request handled: inputs, sends, response
    inflight        \* sweep invocation -> its position and the bookings it holds

vars == <<settings, users, workspaces, integrations, services, contacts,
          conversations, messages, bookings, now, reminders, work,
          lastOp, inflight>>

dbVars == <<users, workspaces, integrations, services, contacts,
            conversations, messages, bookings>>

\* ------------------------------------------------------------------ helpers
\* Python truthiness of an Optional[str].
Truthy(s) == s # NoneStr /\ s # ""

\* Query.first(): some matching row, or None.
First(S) == IF S = {} THEN {None} ELSE S

Append1(seq, cond, row) == IF cond THEN Append(seq, row) ELSE seq

\* The provider's behaviour is an input only where the provider is called.
Behaviours(reached) == IF reached THEN ProviderBehaviours ELSE {"accept"}

MessageRow(conv, content, channel, from_customer, automated, read) ==
    [conversation_id |-> conv, content |-> content, channel |-> channel,
     is_from_customer |-> from_customer, is_automated |-> automated,
     is_read |-> read]

\* ------------------------------------------------------- credential lookup
IntegrationsOf(ints, w, t) ==
    {i \in DOMAIN ints : ints[i].workspace_id = w /\ ints[i].type = t}

\* The lookup without its workspace filter.
ActiveIntegrationsAnyTenant(ints, w, t) ==
    {i \in DOMAIN ints : ints[i].type = t /\ ints[i].is_active}

ActiveIntegrations(ints, w, t) ==
    {i \in IntegrationsOf(ints, w, t) : ints[i].is_active}

\* ------------------------------------------------------------------ senders
\* The result of invoking one sender.
\*   attempted   the sender was invoked
\*   integration the Integration row whose credentials it used (None: none)
\*   called      the provider API was called
\*   raised      the sender raised to its caller
\*   success     the "success" entry of the returned dict
\*   provider    what the provider API call returned or raised (NoneStr: no call)
\*   error       "error" when the returned dict has an "error" entry or an
\*               exception was raised (its text is not modelled)
NoSend ==
    [attempted |-> FALSE, integration |-> None, called |-> FALSE,
     raised |-> FALSE, success |-> FALSE, error |-> NoneStr,
     provider |-> NoneStr]

\* api_instance.send_transac_email: the response, or the exception raised.
\* The SDK raises ApiException for an HTTP error status (a rejected key is
\* 401); a connection failure surfaces as the transport library's exception.
BrevoCall(api_key, prov) ==
    IF prov = "transport_error" THEN "TransportError"
    ELSE IF api_key # "valid" \/ prov = "reject" THEN "ApiException"
    ELSE "message_id"

\* A send_email that falls back to the deployment's key when the workspace
\* has no active EMAIL row, instead of raising.
send_email_env_fallback(ints, i, prov) ==
    LET r == BrevoCall(IF i = None THEN "valid" ELSE ints[i].config, prov) IN
    [attempted |-> TRUE, integration |-> i, called |-> TRUE,
     raised |-> r = "TransportError", success |-> r = "message_id",
     error |-> IF r = "message_id" THEN NoneStr ELSE "error", provider |-> r]

\* A send_email without its "except ApiException" clause.
send_email_uncaught(ints, i, prov) ==
    IF i = None
    THEN [attempted |-> TRUE, integration |-> None, called |-> FALSE,
          raised |-> TRUE, success |-> FALSE,
          error |-> "error", provider |-> NoneStr]
    ELSE LET r == BrevoCall(ints[i].config, prov) IN
         [attempted |-> TRUE, integration |-> i, called |-> TRUE,
          raised |-> r # "message_id", success |-> r = "message_id",
          error |-> IF r = "message_id" THEN NoneStr ELSE "error",
          provider |-> r]

\* send_email with integration = the row .first() returned (None: no row).
send_email(ints, i, prov) ==
    IF i = None
    THEN [attempted |-> TRUE, integration |-> None, called |-> FALSE,
          raised |-> TRUE, success |-> FALSE,
          error |-> "error", provider |-> NoneStr]
    ELSE LET r == BrevoCall(ints[i].config, prov) IN
         CASE r = "message_id" ->
                [attempted |-> TRUE, integration |-> i, called |-> TRUE,
                 raised |-> FALSE, success |-> TRUE, error |-> NoneStr, provider |-> r]
           [] r = "ApiException" ->
                [attempted |-> TRUE, integration |-> i, called |-> TRUE,
                 raised |-> FALSE, success |-> FALSE, error |-> "error", provider |-> r]
           [] OTHER ->
                [attempted |-> TRUE, integration |-> i, called |-> TRUE,
                 raised |-> TRUE, success |-> FALSE, error |-> "error", provider |-> r]

\* client.messages.create: the message sid, or the exception raised.
TwilioCall(config, prov) ==
    IF prov = "transport_error" THEN "TransportError"
    ELSE IF config # "credentials" \/ prov = "reject" THEN "TwilioRestException"
    ELSE "sid"

send_sms(ints, i, prov) ==
    IF i = None
    THEN [attempted |-> TRUE, integration |-> None, called |-> FALSE,
          raised |-> TRUE, success |-> FALSE,
          error |-> "error", provider |-> NoneStr]
    ELSE LET r == TwilioCall(ints[i].config, prov) IN
         IF r = "sid"
         THEN [attempted |-> TRUE, integration |-> i, called |-> TRUE,
               raised |-> FALSE, success |-> TRUE, error |-> NoneStr, provider |-> r]
         ELSE [attempted |-> TRUE, integration |-> i, called |-> TRUE,
               raised |-> FALSE, success |-> FALSE, error |-> "error", provider |-> r]

\* service.events().insert(...).execute(): the event id, or the exception.
GoogleInsert(prov) ==
    IF prov = "transport_error" THEN "TransportError"
    ELSE IF prov = "reject" THEN "HttpError"
    ELSE "event_id"

create_calendar_event(ints, i, prov) ==
    IF i = None
    THEN [attempted |-> TRUE, integration |-> None, called |-> FALSE,
          raised |-> FALSE, success |-> FALSE, error |-> "error", provider |-> NoneStr]
    ELSE IF ints[i].config # "credentials"
    THEN [attempted |-> TRUE, integration |-> i, called |-> FALSE,
          raised |-> FALSE, success |-> FALSE, error |-> "error", provider |-> NoneStr]
    ELSE LET r == GoogleInsert(prov) IN
         IF r = "event_id"
         THEN [attempted |-> TRUE, integration |-> i, called |-> TRUE,
               raised |-> FALSE, success |-> TRUE, error |-> NoneStr, provider |-> r]
         ELSE [attempted |-> TRUE, integration |-> i, called |-> TRUE,
               raised |-> FALSE, success |-> FALSE, error |-> "error", provider |-> r]

\* ------------------------------------------------------- the request record
\* committed: the primary rows as committed before dispatch, <<table, id, row>>.
\* flags: the notification flags of the response.
NoFlags ==
    [notification_sent |-> FALSE, confirmation_sent |-> FALSE,
     sms_sent |-> FALSE, email_sent |-> FALSE, sent |-> FALSE]

\* No request handled yet.
NoRequest ==
    [op |-> "init", w |-> None, http |-> 200, escaped |-> FALSE,
     success |-> TRUE, email |-> NoSend, sms |-> NoSend, cal |-> NoSend,
     arg_email |-> NoneStr, arg_phone |-> NoneStr, arg_status |-> NoneStr,
     arg_notify |-> FALSE, booking |-> None, conv |-> None, msgs_before |-> 0,
     committed |-> <<>>, flags |-> NoFlags, at |-> 0, selected |-> {},
     sweep_sends |-> [b \in {} |-> NoSend], returned |-> 0, error |-> NoneStr,
     resp_error |-> NoneStr, order |-> <<>>]

Request(op, w) ==
    [op |-> op, w |-> w, http |-> 200, escaped |-> FALSE, success |-> TRUE,
     email |-> NoSend, sms |-> NoSend, cal |-> NoSend,
     arg_email |-> NoneStr, arg_phone |-> NoneStr, arg_status |-> NoneStr,
     arg_notify |-> FALSE, booking |-> None, conv |-> None,
     msgs_before |-> Len(messages), committed |-> <<>>, flags |-> NoFlags,
     at |-> now, selected |-> {}, sweep_sends |-> [b \in {} |-> NoSend],
     returned |-> 0, error |-> NoneStr, resp_error |-> NoneStr,
     order |-> <<>>]

\* raise HTTPException(status_code = code): nothing is committed.
Rejected(op, w, code) ==
    [Request(op, w) EXCEPT !.http = code, !.success = FALSE]

\* The invocations of send_booking_reminders() that can run at once: the cron
\* process and the threads serving GET /api/tasks/send-reminders.
Sweepers == {1, 2}

\* No invocation of the sweep is running.
NoSweeps == [p \in Sweepers |-> [pc |-> "idle", selected |-> {}, shared |-> {}]]

\* The senders a request has gone through.
SendsOf(req) ==
    {req.email, req.sms, req.cal} \cup
    {req.sweep_sends[b] : b \in DOMAIN req.sweep_sends}

\* A circuit breaker: the row whose provider call failed is deactivated.
dispatch_writes_breaker(ints, req) ==
    [i \in DOMAIN ints |->
        IF \E res \in SendsOf(req) :
              res.integration = i /\ res.called /\ ~res.success
        THEN [ints[i] EXCEPT !.is_active = FALSE]
        ELSE ints[i]]

\* The integrations table after the senders of a request have run. The
\* senders query the row and read integration.config; none of them, and no
\* handler after them, assigns to a row, adds one or touches the workspace
\* flags, so the commits that follow dispatch write nothing to the table.
dispatch_writes(ints, req) == ints

\* One more HTTP request is accepted.
Accept ==
    /\ work + 3 <= MaxWork
    /\ work' = work + 3

\* -------------------------------------------------------------------- Init
\* The empty database of a fresh deployment.
Init ==
    /\ settings \in [BREVO_API_KEY : ApiKeys \cup {NoneStr}, TWILIO : BOOLEAN]
    /\ users = <<>>
    /\ workspaces = <<>>
    /\ integrations = <<>>
    /\ services = {}
    /\ contacts = <<>>
    /\ conversations = <<>>
    /\ messages = <<>>
    /\ bookings = <<>>
    /\ now = 0
    /\ reminders = <<>>
    /\ work = 0
    /\ lastOp = NoRequest
    /\ inflight = NoSweeps

\* ---------------------------------------------------- configuration routes
\* These routes grow no table without bound (a row is found or created once
\* per tenant and type), so they are not counted as work.
IntegrationRow(w, t, config, active) ==
    [workspace_id |-> w, type |-> t, config |-> config, is_active |-> active]

\* The step a route records: "max(workspace.onboarding_step, step)".
step_reached(current, step) == IF current > step THEN current ELSE step

\* POST /api/auth/signup
signup ==
    \E email \in OwnerEmails :
        /\ UNCHANGED <<inflight, work, settings, services, contacts, conversations, messages,
                       bookings, now, reminders>>
        /\ IF \E u \in DOMAIN users : users[u].email = email
           THEN /\ lastOp' = Rejected("signup", None, 400)
                /\ UNCHANGED <<users, workspaces, integrations>>
           ELSE LET w == Len(workspaces) + 1
                    hasEmail == settings.BREVO_API_KEY # NoneStr
                    withEmail ==
                        Append1(integrations, hasEmail,
                                IntegrationRow(w, "email", settings.BREVO_API_KEY, TRUE))
                IN  /\ users' = Append(users, [email |-> email, role |-> "owner",
                                               workspace_id |-> w])
                    /\ workspaces' = Append(workspaces,
                           [email_configured |-> hasEmail,
                            sms_configured |-> settings.TWILIO,
                            onboarding_step |-> 0])
                    /\ integrations' =
                           Append1(withEmail, settings.TWILIO,
                                   IntegrationRow(w, "sms", "credentials", TRUE))
                    /\ lastOp' = Request("signup", w)

\* POST /api/onboarding/workspace/{workspace_id}/integrations
setup_integrations ==
    \E w_in \in WorkspaceIds, key_in \in ApiKeys \cup {NoneStr, "auto"},
       sms_in \in BOOLEAN :
        /\ UNCHANGED <<inflight, work, settings, users, services, contacts, conversations,
                       messages, bookings, now, reminders>>
        /\ IF workspaces = <<>>
           THEN /\ lastOp' = Rejected("setup_integrations", w_in, 404)
                /\ UNCHANGED <<workspaces, integrations>>
           ELSE LET w == IF w_in \in DOMAIN workspaces THEN w_in ELSE 1
                    api_key == IF key_in = "auto" /\ settings.BREVO_API_KEY # NoneStr
                               THEN settings.BREVO_API_KEY ELSE key_in
                IN  \E e \in First(IntegrationsOf(integrations, w, "email")) :
                    LET ints1 ==
                          IF api_key = NoneStr THEN integrations
                          ELSE IF e # None
                          THEN [integrations EXCEPT ![e].config = api_key,
                                                    ![e].is_active = TRUE]
                          ELSE Append(integrations,
                                      IntegrationRow(w, "email", api_key, TRUE))
                    IN  \E s \in First(IntegrationsOf(ints1, w, "sms")) :
                        /\ integrations' =
                              IF ~sms_in THEN ints1
                              ELSE IF s # None
                              THEN [ints1 EXCEPT ![s].config = "credentials",
                                                 ![s].is_active = TRUE]
                              ELSE Append(ints1,
                                          IntegrationRow(w, "sms", "credentials", TRUE))
                        /\ workspaces' = [workspaces EXCEPT
                              ![w].email_configured = @ \/ api_key # NoneStr,
                              ![w].sms_configured = @ \/ sms_in,
                              ![w].onboarding_step = step_reached(@, 2)]
                        /\ lastOp' = Request("setup_integrations", w)

\* POST /api/onboarding/workspace/{workspace_id}/services
add_service ==
    \E w \in WorkspaceIds :
        /\ UNCHANGED <<inflight, work, settings, users, integrations, contacts, conversations,
                       messages, bookings, now, reminders>>
        /\ IF w \notin DOMAIN workspaces
           THEN /\ lastOp' = Rejected("add_service", w, 404)
                /\ UNCHANGED <<workspaces, services>>
           ELSE /\ Cardinality(services) + 1 <= MaxServices
                /\ services' = services \cup {Cardinality(services) + 1}
                /\ workspaces' = [workspaces EXCEPT
                      ![w].onboarding_step = step_reached(@, 4)]
                /\ lastOp' = Request("add_service", w)

\* PATCH /api/settings/{workspace_id}/email
\* An existing row's config is a plain JSON column changed in place: whether
\* the new key reaches the database depends on the ORM's change tracking.
settings_update_email_integration ==
    \E w \in WorkspaceIds, key_in \in ApiKeys :
        /\ UNCHANGED <<inflight, work, settings, users, services, contacts, conversations,
                       messages, bookings, now, reminders>>
        /\ IF w \notin DOMAIN workspaces
           THEN /\ lastOp' = Rejected("settings_update_email_integration", w, 404)
                /\ UNCHANGED <<workspaces, integrations>>
           ELSE \E e \in First(IntegrationsOf(integrations, w, "email")) :
                /\ IF e # None
                   THEN \E k \in {key_in, integrations[e].config} :
                            integrations' = [integrations EXCEPT ![e].config = k]
                   ELSE integrations' =
                            Append(integrations,
                                   IntegrationRow(w, "email", key_in, TRUE))
                /\ workspaces' = [workspaces EXCEPT ![w].email_configured = TRUE]
                /\ lastOp' = Request("settings_update_email_integration", w)

\* PUT /api/integrations/{workspace_id}/email
update_email_integration ==
    \E w \in WorkspaceIds, key_in \in ApiKeys \cup {NoneStr} :
        /\ UNCHANGED <<inflight, work, settings, users, workspaces, services, contacts,
                       conversations, messages, bookings, now, reminders>>
        /\ \E e \in First(IntegrationsOf(integrations, w, "email")) :
            IF e = None
            THEN /\ lastOp' = Rejected("update_email_integration", w, 404)
                 /\ UNCHANGED integrations
            ELSE /\ IF key_in = NoneStr THEN UNCHANGED integrations
                    ELSE \E k \in {key_in, integrations[e].config} :
                            integrations' = [integrations EXCEPT
                                ![e].config = k, ![e].is_active = TRUE]
                 /\ lastOp' = Request("update_email_integration", w)

\* PUT /api/integrations/{workspace_id}/sms
update_sms_integration ==
    \E w \in WorkspaceIds, creds_in \in BOOLEAN :
        /\ w \in DOMAIN workspaces
        /\ UNCHANGED <<inflight, work, settings, users, workspaces, services, contacts,
                       conversations, messages, bookings, now, reminders>>
        /\ \E s \in First(IntegrationsOf(integrations, w, "sms")) :
            LET ints1 == IF s # None THEN integrations
                         ELSE Append(integrations,
                                     IntegrationRow(w, "sms", "", FALSE))
                row == IF s # None THEN s ELSE Len(ints1)
            IN  /\ integrations' =
                      IF creds_in
                      THEN [ints1 EXCEPT ![row].config = "credentials",
                                         ![row].is_active = TRUE]
                      ELSE ints1
                /\ lastOp' = Request("update_sms_integration", w)

\* The lookup restricted to connected rows.
callback_lookup_active(ints, w) == ActiveIntegrations(ints, w, "calendar")

\* "filter(Integration.workspace_id == workspace_id, Integration.type ==
\* IntegrationType.CALENDAR)": the tenant's row, connected or not.
callback_lookup(ints, w) == IntegrationsOf(ints, w, "calendar")

\* GET /api/integrations/google/callback, the token exchange having succeeded
google_callback ==
    \E w \in WorkspaceIds :
        /\ w \in DOMAIN workspaces
        /\ UNCHANGED <<inflight, work, settings, users, workspaces, services, contacts,
                       conversations, messages, bookings, now, reminders>>
        /\ \E c \in First(callback_lookup(integrations, w)) :
            /\ integrations' =
                  IF c # None
                  THEN [integrations EXCEPT ![c].config = "credentials",
                                            ![c].is_active = TRUE]
                  ELSE Append(integrations,
                              IntegrationRow(w, "calendar", "credentials", TRUE))
            /\ lastOp' = Request("google_callback", w)

\* DELETE /api/integrations/google/disconnect/{workspace_id}
disconnect_google_calendar ==
    \E w \in WorkspaceIds :
        /\ UNCHANGED <<inflight, work, settings, users, workspaces, services, contacts,
                       conversations, messages, bookings, now, reminders>>
        /\ \E c \in First(IntegrationsOf(integrations, w, "calendar")) :
            IF c = None
            THEN /\ lastOp' = [Request("disconnect_google_calendar", w)
                                  EXCEPT !.success = FALSE]
                 /\ UNCHANGED integrations
            ELSE /\ integrations' = [integrations EXCEPT ![c].is_active = FALSE]
                 /\ lastOp' = Request("disconnect_google_calendar", w)

\* POST /api/onboarding/workspace/{workspace_id}/contact-form
\* (the Form row it adds is read by no handler modelled here)
setup_contact_form ==
    \E w \in WorkspaceIds :
        /\ UNCHANGED <<inflight, work, settings, users, integrations, services,
                       contacts, conversations, messages, bookings, now, reminders>>
        /\ IF w \notin DOMAIN workspaces
           THEN /\ lastOp' = Rejected("setup_contact_form", w, 404)
                /\ UNCHANGED workspaces
           ELSE /\ workspaces' = [workspaces EXCEPT
                      ![w].onboarding_step = step_reached(@, 3)]
                /\ lastOp' = Request("setup_contact_form", w)

\* POST /api/onboarding/workspace/{workspace_id}/post-booking-forms
create_post_booking_form ==
    \E w \in WorkspaceIds :
        /\ UNCHANGED <<inflight, work, settings, users, integrations, services,
                       contacts, conversations, messages, bookings, now, reminders>>
        /\ IF w \notin DOMAIN workspaces
           THEN /\ lastOp' = Rejected("create_post_booking_form", w, 404)
                /\ UNCHANGED workspaces
           ELSE /\ workspaces' = [workspaces EXCEPT
                      ![w].onboarding_step = step_reached(@, 5)]
                /\ lastOp' = Request("create_post_booking_form", w)

\* POST /api/onboarding/workspace/{workspace_id}/inventory
create_inventory_item ==
    \E w \in WorkspaceIds :
        /\ UNCHANGED <<inflight, work, settings, users, integrations, services,
                       contacts, conversations, messages, bookings, now, reminders>>
        /\ IF w \notin DOMAIN workspaces
           THEN /\ lastOp' = Rejected("create_inventory_item", w, 404)
                /\ UNCHANGED workspaces
           ELSE /\ workspaces' = [workspaces EXCEPT
                      ![w].onboarding_step = step_reached(@, 6)]
                /\ lastOp' = Request("create_inventory_item", w)

\* POST /api/onboarding/workspace/{workspace_id}/staff
invite_staff ==
    \E w \in WorkspaceIds, email \in StaffEmails :
        /\ UNCHANGED <<inflight, work, settings, integrations, services, contacts,
                       conversations, messages, bookings, now, reminders>>
        /\ IF w \notin DOMAIN workspaces
           THEN /\ lastOp' = Rejected("invite_staff", w, 404)
                /\ UNCHANGED <<users, workspaces>>
           ELSE IF \E u \in DOMAIN users : users[u].email = email
           THEN /\ lastOp' = Rejected("invite_staff", w, 400)
                /\ UNCHANGED <<users, workspaces>>
           ELSE /\ users' = Append(users, [email |-> email, role |-> "staff",
                                           workspace_id |-> w])
                /\ workspaces' = [workspaces EXCEPT
                      ![w].onboarding_step = step_reached(@, 7)]
                /\ lastOp' = Request("invite_staff", w)

\* POST /api/onboarding/workspace/{workspace_id}/activate
activate_workspace ==
    \E w \in WorkspaceIds :
        /\ UNCHANGED <<inflight, work, settings, users, integrations, services,
                       contacts, conversations, messages, bookings, now, reminders>>
        /\ IF w \notin DOMAIN workspaces
           THEN /\ lastOp' = Rejected("activate_workspace", w, 404)
                /\ UNCHANGED workspaces
           ELSE IF ~workspaces[w].email_configured \/ services = {}
           THEN /\ lastOp' = Rejected("activate_workspace", w, 400)
                /\ UNCHANGED workspaces
           ELSE /\ workspaces' = [workspaces EXCEPT ![w].onboarding_step = 8]
                /\ lastOp' = Request("activate_workspace", w)

\* "workspace.onboarding_step = 5"
ai_setup_step(current) == 5

\* AI setup adding its EMAIL row without looking for one.
ai_setup_lookup_none(ints, w) == {}

\* "existing_integration = ... filter(workspace_id, type == EMAIL).first()"
ai_setup_lookup(ints, w) == IntegrationsOf(ints, w, "email")

\* POST /api/onboarding/workspace/{workspace_id}/ai-setup
\* The 404 is raised inside the try block and leaves as a 500.
ai_complete_setup ==
    \E w \in WorkspaceIds :
        /\ UNCHANGED <<inflight, work, settings, users, contacts, conversations,
                       messages, bookings, now, reminders>>
        /\ IF w \notin DOMAIN workspaces
           THEN /\ lastOp' = Rejected("ai_complete_setup", w, 500)
                /\ UNCHANGED <<workspaces, integrations, services>>
           ELSE \E e \in First(ai_setup_lookup(integrations, w)) :
                LET adds == Truthy(settings.BREVO_API_KEY) /\ e = None
                IN  /\ Cardinality(services) + 1 <= MaxServices
                    /\ integrations' =
                          Append1(integrations, adds,
                                  IntegrationRow(w, "email", settings.BREVO_API_KEY,
                                                 TRUE))
                    /\ services' = services \cup {Cardinality(services) + 1}
                    /\ workspaces' = [workspaces EXCEPT
                          ![w].email_configured = @ \/ adds,
                          ![w].onboarding_step = ai_setup_step(@)]
                    /\ lastOp' = Request("ai_complete_setup", w)

\* ----------------------------------------------------------- event handlers
\* "except Exception as e: print(...)" around the sends of each handler:
\* whether an exception the sender raised leaves the handler.
contact_form_except(res) == FALSE
booking_calendar_except(res) == FALSE
\* The confirmation email sent outside any try block.
booking_email_unguarded(res) == TRUE
booking_email_except(res) == FALSE
booking_sms_except(res) == FALSE
status_change_except(res) == FALSE
invite_except(res) == FALSE
\* The reply's sends outside their try block.
reply_unguarded(res) == TRUE
reply_except(res) == FALSE
\* The sweep loop without its per-booking try block.
reminder_unguarded(res) == TRUE
reminder_except(res) == FALSE

\* The provider calls of a request, in the order of the handler's code:
\* calendar insert, email, SMS.
ProviderCalls(req) ==
    (IF req.cal.called THEN <<"calendar">> ELSE <<>>) \o
    (IF req.email.called THEN <<"email">> ELSE <<>>) \o
    (IF req.sms.called THEN <<"sms">> ELSE <<>>)

\* A handler that notifies first and commits its rows afterwards.
handler_order_send_first(req) == ProviderCalls(req) \o <<"commit">>

\* What a handler does, in order: "db.commit()" of its primary rows, then
\* its senders.
handler_order(req) == <<"commit">> \o ProviderCalls(req)

\* The response of a handler whose sends were wrapped as above.
Respond(req, escaped) ==
    [req EXCEPT !.escaped = escaped, !.success = ~escaped,
                !.http = IF escaped THEN 500 ELSE 200,
                !.order = handler_order(req)]

ContactRow(w, email, phone) ==
    [workspace_id |-> w, email |-> email, phone |-> phone]

ContactsWith(w, email) ==
    {c \in DOMAIN contacts :
        contacts[c].workspace_id = w /\ contacts[c].email = email}

ConversationsWith(w, c) ==
    {k \in DOMAIN conversations :
        conversations[k].workspace_id = w /\ conversations[k].contact_id = c}

\* The welcome email sent to whoever gives an address, configured or not.
contact_form_email_gate_address(email, workspace) == Truthy(email)

\* "if data.email and workspace.email_configured"
contact_form_email_gate(email, workspace) ==
    Truthy(email) /\ workspace.email_configured

\* The send logged whatever send_email returned.
contact_form_logs_any(res) == ~res.raised

\* 'if email_result.get("success")': the send is logged to the timeline.
contact_form_logs_email(res) == ~res.raised /\ res.success

\* POST /api/public/contact-form/{workspace_id}/submit
submit_contact_form ==
    \E w \in WorkspaceIds, email \in ContactEmails \cup {NoneStr},
       phone \in Phones \cup {NoneStr} :
        /\ Accept
        /\ UNCHANGED <<inflight, settings, users, workspaces, services,
                       bookings, now, reminders>>
        /\ IF w \notin DOMAIN workspaces
           THEN /\ lastOp' = Rejected("submit_contact_form", w, 404)
                /\ UNCHANGED <<contacts, conversations, messages>>
           ELSE \E existing \in First(IF Truthy(email) THEN ContactsWith(w, email)
                                      ELSE {}),
                   i \in First(ActiveIntegrations(integrations, w, "email")) :
                \E prov \in Behaviours(i # None /\
                        contact_form_email_gate(email, workspaces[w])) :
                LET contacts1 == Append1(contacts, existing = None,
                                         ContactRow(w, email, phone))
                    c == IF existing = None THEN Len(contacts1) ELSE existing
                    convs1 == Append(conversations,
                                [workspace_id |-> w, contact_id |-> c,
                                 status |-> "new"])
                    conv == Len(convs1)
                    msgs1 == Append(messages,
                                MessageRow(conv, "initial", "system",
                                           TRUE, FALSE, FALSE))
                    res == IF contact_form_email_gate(email, workspaces[w])
                           THEN send_email(integrations, i, prov) ELSE NoSend
                    msgs2 == Append1(msgs1, contact_form_logs_email(res),
                                MessageRow(conv, "welcome_email", "email",
                                           FALSE, TRUE, TRUE))
                IN  /\ contacts' = contacts1
                    /\ conversations' = convs1
                    /\ messages' = msgs2
                    /\ lastOp' = Respond(
                          [Request("submit_contact_form", w) EXCEPT
                              !.arg_email = email, !.arg_phone = phone,
                              !.conv = conv, !.email = res,
                              !.committed = << <<"contacts", c, contacts1[c]>>,
                                               <<"conversations", conv, convs1[conv]>>,
                                               <<"messages", Len(msgs1), msgs1[Len(msgs1)]>> >>],
                          res.raised /\ contact_form_except(res))
        /\ integrations' = dispatch_writes(integrations, lastOp')

\* The confirmation email gated on the workspace flag alone.
booking_email_gate_flag(email, workspace) == workspace.email_configured

\* "if data.customer_email and workspace.email_configured"
booking_email_gate(email, workspace) ==
    Truthy(email) /\ workspace.email_configured

\* An SMS gate that ignores the phone number.
booking_sms_gate_open(phone) == TRUE

\* "if data.customer_phone"
booking_sms_gate(phone) == Truthy(phone)

\* POST /api/public/book/{workspace_id}, customer_email drawn from emails.
create_booking_from(emails) ==
    \E w \in WorkspaceIds, service_id \in ServiceIds \cup {None},
       date \in BookingDates, email \in emails,
       phone \in Phones \cup {NoneStr} :
        /\ Accept
        /\ UNCHANGED <<inflight, settings, users, workspaces, services, now>>
        /\ IF w \notin DOMAIN workspaces \/ service_id \notin services
           THEN /\ lastOp' = Rejected("create_booking", w, 404)
                /\ UNCHANGED <<contacts, conversations, messages, bookings,
                               reminders>>
           ELSE \E existing \in First(ContactsWith(w, email)),
                   ic \in First(ActiveIntegrations(integrations, w, "calendar")),
                   ie \in First(ActiveIntegrations(integrations, w, "email")),
                   is \in First(ActiveIntegrations(integrations, w, "sms")) :
                \E prov_cal \in Behaviours(ic # None),
                   prov_email \in Behaviours(ie # None /\
                        booking_email_gate(email, workspaces[w])),
                   prov_sms \in Behaviours(is # None /\ booking_sms_gate(phone)) :
                LET contacts1 == Append1(contacts, existing = None,
                                         ContactRow(w, email, phone))
                    c == IF existing = None THEN Len(contacts1) ELSE existing
                    row == [workspace_id |-> w, contact_id |-> c,
                            service_id |-> service_id, booking_date |-> date,
                            status |-> "pending", calendar_event_id |-> NoneStr]
                    b == Len(bookings) + 1
                IN  \E found \in First(ConversationsWith(w, c)) :
                    LET convs1 == Append1(conversations, found = None,
                                    [workspace_id |-> w, contact_id |-> c,
                                     status |-> "ongoing"])
                        conv == IF found = None THEN Len(convs1) ELSE found
                        msgs1 == Append(messages,
                                    MessageRow(conv, "booking_created", "system",
                                               TRUE, FALSE, FALSE))
                        cal == create_calendar_event(integrations, ic, prov_cal)
                        row1 == IF ~cal.raised /\ cal.success
                                THEN [row EXCEPT !.calendar_event_id = "event_id"]
                                ELSE row
                        em == IF booking_email_gate(email, workspaces[w])
                              THEN send_email(integrations, ie, prov_email)
                              ELSE NoSend
                        msgs2 == Append1(msgs1, ~em.raised /\ em.success,
                                    MessageRow(conv, "confirmation_email", "email",
                                               FALSE, TRUE, TRUE))
                        sm == IF booking_sms_gate(phone)
                              THEN send_sms(integrations, is, prov_sms)
                              ELSE NoSend
                        msgs3 == Append1(msgs2, ~sm.raised /\ sm.success,
                                    MessageRow(conv, "confirmation_sms", "sms",
                                               FALSE, TRUE, TRUE))
                    IN  /\ contacts' = contacts1
                        /\ conversations' = convs1
                        /\ messages' = msgs3
                        /\ bookings' = Append(bookings, row1)
                        /\ reminders' = Append(reminders, 0)
                        /\ lastOp' = Respond(
                              [Request("create_booking", w) EXCEPT
                                  !.arg_email = email, !.arg_phone = phone,
                                  !.booking = b, !.conv = conv,
                                  !.cal = cal, !.email = em, !.sms = sm,
                                  !.committed = << <<"contacts", c, contacts1[c]>>,
                                                   <<"bookings", b, row>>,
                                                   <<"conversations", conv, convs1[conv]>>,
                                                   <<"messages", Len(msgs1), msgs1[Len(msgs1)]>> >>,
                                  !.flags = [NoFlags EXCEPT
                                      !.confirmation_sent = workspaces[w].email_configured,
                                      !.sms_sent = phone # NoneStr]],
                              \/ cal.raised /\ booking_calendar_except(cal)
                              \/ em.raised /\ booking_email_except(em)
                              \/ sm.raised /\ booking_sms_except(sm))
        /\ integrations' = dispatch_writes(integrations, lastOp')

\* A booking by a customer who gives an email address.
create_booking == create_booking_from(ContactEmails)

\* A booking whose customer_email may be the empty string (the field is a
\* required str, which "" satisfies).
create_booking_blank == create_booking_from(ContactEmails \cup {""})

\* The status strings update_booking_status accepts ("no_show" is none).
\* Any status string accepted.
valid_status_any(status) == TRUE

valid_status(status) ==
    status \in {"pending", "confirmed", "completed", "cancelled"}

\* A template for every status.
status_has_template_all(status) == TRUE

\* The statuses a subject and a message are composed for.
status_has_template(status) ==
    status \in {"confirmed", "cancelled", "completed"}

\* The notification sent whether or not the caller asked for it.
status_dispatch_unasked(notify, status) == status_has_template(status)

\* "if update.send_notification" ... "if subject and message"
status_dispatch(notify, status) == notify /\ status_has_template(status)

\* PATCH /api/bookings/{booking_id}/status
update_booking_status ==
    \E b \in 1..(Len(bookings) + 1), status \in StatusInputs,
       notify \in BOOLEAN :
        /\ Accept
        /\ UNCHANGED <<inflight, settings, users, workspaces, services,
                       contacts, conversations, now, reminders>>
        /\ IF b \notin DOMAIN bookings \/ ~valid_status(status)
           THEN /\ lastOp' = [Rejected("update_booking_status", None,
                                       IF b \notin DOMAIN bookings THEN 404 ELSE 400)
                                 EXCEPT !.booking = b, !.arg_status = status,
                                        !.arg_notify = notify]
                /\ UNCHANGED <<messages, bookings>>
           ELSE LET w == bookings[b].workspace_id
                    contact == contacts[bookings[b].contact_id]
                    bookings1 == [bookings EXCEPT ![b].status = status]
                IN  \E found \in First(ConversationsWith(w, bookings[b].contact_id)),
                       ie \in First(ActiveIntegrations(integrations, w, "email")) :
                    \E prov \in Behaviours(ie # None /\ found # None /\
                            status_dispatch(notify, status)) :
                    LET dispatch == status_dispatch(notify, status) /\ found # None
                        msgs1 == Append1(messages, dispatch,
                                    MessageRow(found, "status_updated", "system",
                                               FALSE, TRUE, TRUE))
                        res == IF dispatch /\ Truthy(contact.email)
                               THEN send_email(integrations, ie, prov)
                               ELSE NoSend
                        msgs2 == Append1(msgs1, res.attempted /\ ~res.raised,
                                    MessageRow(found, "status_email", "email",
                                               FALSE, TRUE, TRUE))
                    IN  /\ bookings' = bookings1
                        /\ messages' = msgs2
                        /\ lastOp' = Respond(
                              [Request("update_booking_status", w) EXCEPT
                                  !.booking = b, !.arg_status = status,
                                  !.arg_notify = notify, !.email = res,
                                  !.arg_email = contact.email,
                                  !.conv = found,
                                  !.committed = << <<"bookings", b, bookings1[b]>> >>,
                                  !.flags = [NoFlags EXCEPT
                                                !.notification_sent = notify]],
                              res.raised /\ status_change_except(res))
        /\ integrations' = dispatch_writes(integrations, lastOp')

\* The invitation email gated on the workspace flag.
invite_email_gate_flag(workspace) == workspace.email_configured

\* "try: send_email(...)" follows the commit directly: no gate.
invite_email_gate(workspace) == TRUE

\* POST /api/staff/invite/{workspace_id}
invite_staff_member ==
    \E w \in WorkspaceIds, email \in StaffEmails :
        /\ Accept
        /\ UNCHANGED <<inflight, settings, workspaces, services, contacts,
                       conversations, messages, bookings, now, reminders>>
        /\ IF \E u \in DOMAIN users : users[u].email = email
           THEN /\ lastOp' = [Rejected("invite_staff_member", w, 400)
                                 EXCEPT !.arg_email = email]
                /\ UNCHANGED users
           ELSE IF w \notin DOMAIN workspaces
           THEN /\ lastOp' = [Rejected("invite_staff_member", w, 404)
                                 EXCEPT !.arg_email = email]
                /\ UNCHANGED users
           ELSE \E ie \in First(ActiveIntegrations(integrations, w, "email")) :
                \E prov \in Behaviours(ie # None) :
                LET users1 == Append(users, [email |-> email, role |-> "staff",
                                             workspace_id |-> w])
                    res == IF invite_email_gate(workspaces[w])
                           THEN send_email(integrations, ie, prov)
                           ELSE NoSend
                IN  /\ users' = users1
                    /\ lastOp' = Respond(
                          [Request("invite_staff_member", w) EXCEPT
                              !.arg_email = email, !.email = res,
                              !.committed = << <<"users", Len(users1),
                                                users1[Len(users1)]>> >>,
                              !.flags = [NoFlags EXCEPT !.email_sent = ~res.raised]],
                          res.raised /\ invite_except(res))
        /\ integrations' = dispatch_writes(integrations, lastOp')

\* POST /api/inbox/conversation/{conversation_id}/reply
reply_to_conversation ==
    \E conv \in 1..(Len(conversations) + 1), channel \in ReplyChannels :
        /\ Accept
        /\ UNCHANGED <<inflight, settings, users, workspaces, services,
                       contacts, bookings, now, reminders>>
        /\ IF conv \notin DOMAIN conversations
           THEN /\ lastOp' = [Rejected("reply_to_conversation", None, 404)
                                 EXCEPT !.conv = conv, !.arg_status = channel]
                /\ UNCHANGED <<conversations, messages>>
           ELSE LET w == conversations[conv].workspace_id
                    contact == contacts[conversations[conv].contact_id]
                    read == [m \in DOMAIN messages |->
                               IF /\ messages[m].conversation_id = conv
                                  /\ messages[m].is_from_customer
                                  /\ ~messages[m].is_read
                               THEN [messages[m] EXCEPT !.is_read = TRUE]
                               ELSE messages[m]]
                    msgs1 == Append(read,
                                MessageRow(conv, "reply",
                                           IF channel = "email" THEN "email" ELSE "sms",
                                           FALSE, FALSE, TRUE))
                    convs1 == [conversations EXCEPT ![conv].status = "ongoing"]
                IN  \E ie \in First(ActiveIntegrations(integrations, w, "email")),
                       is \in First(ActiveIntegrations(integrations, w, "sms")) :
                    \E prov \in Behaviours(
                            \/ channel = "email" /\ ie # None /\ Truthy(contact.email)
                            \/ channel = "sms" /\ is # None /\ Truthy(contact.phone)) :
                    LET em == IF channel = "email" /\ Truthy(contact.email)
                              THEN send_email(integrations, ie, prov) ELSE NoSend
                        sm == IF channel = "sms" /\ ~(channel = "email" /\ Truthy(contact.email))
                                 /\ Truthy(contact.phone)
                              THEN send_sms(integrations, is, prov) ELSE NoSend
                    IN  /\ messages' = msgs1
                        /\ conversations' = convs1
                        /\ lastOp' = Respond(
                              [Request("reply_to_conversation", w) EXCEPT
                                  !.conv = conv, !.arg_status = channel,
                                  !.arg_email = contact.email,
                                  !.arg_phone = contact.phone,
                                  !.email = em, !.sms = sm,
                                  !.committed = << <<"messages", Len(msgs1),
                                                    msgs1[Len(msgs1)]>>,
                                                   <<"conversations", conv, convs1[conv]>> >>,
                                  !.flags = [NoFlags EXCEPT !.sent =
                                      \/ ~em.raised /\ em.success
                                      \/ ~sm.raised /\ sm.success]],
                              \/ em.raised /\ reply_except(em)
                              \/ sm.raised /\ reply_except(sm))
        /\ integrations' = dispatch_writes(integrations, lastOp')

\* ----------------------------------------------------------- reminder sweep
\* The window with its two edges excluded.
in_reminder_window_open(t, date) ==
    /\ date > t + REMINDER_START_HOURS * 60
    /\ date < t + REMINDER_END_HOURS * 60

\* "Booking.booking_date >= reminder_start, Booking.booking_date <= reminder_end"
in_reminder_window(t, date) ==
    /\ date >= t + REMINDER_START_HOURS * 60
    /\ date <= t + REMINDER_END_HOURS * 60

\* The query without its status filter.
reminder_status_any(status) == TRUE

\* "Booking.status.in_([BookingStatus.CONFIRMED, BookingStatus.PENDING])"
reminder_status(status) == status \in {"confirmed", "pending"}

bookings_to_remind(t) ==
    {b \in DOMAIN bookings :
        /\ in_reminder_window(t, bookings[b].booking_date)
        /\ reminder_status(bookings[b].status)}

\* The loop body with a sent-marker check: a booking already reminded is
\* skipped.
reminder_sendable_once(b) ==
    /\ bookings[b].contact_id \in DOMAIN contacts
    /\ bookings[b].service_id \in services
    /\ bookings[b].workspace_id \in DOMAIN workspaces
    /\ Truthy(contacts[bookings[b].contact_id].email)
    /\ reminders[b] = 0

\* The booking passes the two "continue" checks of the loop body.
reminder_sendable(b) ==
    /\ bookings[b].contact_id \in DOMAIN contacts
    /\ bookings[b].service_id \in services
    /\ bookings[b].workspace_id \in DOMAIN workspaces
    /\ Truthy(contacts[bookings[b].contact_id].email)

\* send_booking_reminders(), run by cron or by GET /api/tasks/send-reminders
\* "except Exception as e: ... return 0" around the whole sweep: whether an
\* exception raised outside the per-booking try leaves send_booking_reminders.
sweep_except(error) == FALSE

\* trigger_reminders: the response to a sweep that returned count, or that
\* raised (escaped).
trigger_reminders(req, escaped, count) ==
    [req EXCEPT !.escaped = escaped,
                !.success = ~escaped,
                !.returned = IF escaped THEN 0 ELSE count,
                !.resp_error = IF escaped THEN "error" ELSE NoneStr]

\* The loop over the selected bookings and the value returned (lines 39 to
\* 135): each booking's rows and the tenant's integration are read when its
\* turn comes.
sweep_loop(selected) ==
    \E provs \in [selected -> ProviderBehaviours],
       pick \in [selected -> {None} \cup DOMAIN integrations] :
        /\ \A b \in selected :
              /\ provs[b] \in Behaviours(pick[b] # None /\
                                          reminder_sendable(b))
              /\ pick[b] \in First(ActiveIntegrations(integrations,
                      bookings[b].workspace_id, "email"))
        /\ LET each == [b \in selected |->
                    IF reminder_sendable(b)
                    THEN send_email(integrations, pick[b], provs[b])
                    ELSE NoSend]
               \* the loop ends at the first exception that leaves
               \* the per-booking try (bookings in id order)
               aborted(b) == \E c \in selected :
                    /\ c < b
                    /\ each[c].raised
                    /\ reminder_except(each[c])
               sends == [b \in selected |->
                    IF aborted(b) THEN NoSend ELSE each[b]]
               loop_raises == \E b \in selected :
                    sends[b].raised /\ reminder_except(sends[b])
           IN  /\ reminders' = [b \in DOMAIN reminders |->
                     IF b \in selected /\ sends[b].attempted
                     THEN reminders[b] + 1 ELSE reminders[b]]
               /\ lastOp' = trigger_reminders(
                     [Request("send_booking_reminders", None) EXCEPT
                         !.selected = selected,
                         !.sweep_sends = sends,
                         !.error = IF loop_raises THEN "loop"
                                   ELSE NoneStr],
                     loop_raises /\ sweep_except("loop"),
                     IF loop_raises THEN 0
                     ELSE Cardinality(
                             {b \in selected :
                                 sends[b].attempted /\ ~sends[b].raised}))

\* One invocation of the sweep, from its query to its return value.
send_booking_reminders ==
    \E query_raises \in BOOLEAN :
        /\ UNCHANGED <<inflight, settings, users, workspaces, services,
                       contacts, conversations, messages, bookings, now>>
        /\ work + 1 <= MaxWork
        /\ work' = work + 1
        /\ IF query_raises
           THEN /\ lastOp' = trigger_reminders(
                                 [Request("send_booking_reminders", None)
                                     EXCEPT !.error = "query"],
                                 sweep_except("query"), 0)
                /\ UNCHANGED reminders
           ELSE sweep_loop(bookings_to_remind(now))
        /\ integrations' = dispatch_writes(integrations, lastOp')

\* A lease an invocation would hold on the bookings it selected, keeping
\* the other invocations from them.
sweep_lease_held(fl, p, b) == \A q \in Sweepers \ {p} : b \notin fl[q].selected

\* "db = SessionLocal()" and the query are all an invocation does before its
\* loop: no lock or lease is taken and no marker is read, so a booking another
\* invocation holds is selected all the same.
sweep_lease(fl, p, b) == TRUE

\* An invocation runs its query (lines 19 to 37) while others may be running.
sweep_select ==
    \E p \in Sweepers :
        /\ inflight[p].pc = "idle"
        /\ work + 1 <= MaxWork
        /\ work' = work + 1
        /\ inflight' = [inflight EXCEPT ![p] =
               [pc |-> "selected",
                selected |-> {b \in bookings_to_remind(now) :
                                 sweep_lease(inflight, p, b)},
                shared |-> {}]]
        /\ UNCHANGED <<settings, users, workspaces, integrations, services,
                       contacts, conversations, messages, bookings, now,
                       reminders, lastOp>>

\* The invocation goes through the bookings it selected (lines 39 to 135) and
\* returns. "shared" remembers the bookings that another invocation, still
\* running, selected as well.
sweep_send ==
    \E p \in Sweepers :
        /\ inflight[p].pc = "selected"
        /\ sweep_loop(inflight[p].selected)
        /\ inflight' = [inflight EXCEPT ![p] =
               [pc |-> "idle",
                selected |-> {},
                shared |-> {b \in inflight[p].selected :
                               \E q \in Sweepers \ {p} :
                                   /\ inflight[q].pc = "selected"
                                   /\ b \in inflight[q].selected}]]
        /\ UNCHANGED <<settings, users, workspaces, services,
                       contacts, conversations, messages, bookings, now, work>>
        /\ integrations' = dispatch_writes(integrations, lastOp')

\* Time passes.
Tick ==
    /\ now < MaxNow
    /\ now' = now + 1
    /\ work + 1 <= MaxWork
    /\ work' = work + 1
    /\ UNCHANGED <<inflight, settings, users, workspaces, integrations, services,
                   contacts, conversations, messages, bookings, reminders,
                   lastOp>>

\* ------------------------------------------------------------ specifications
\* The configuration routes, from the empty database.
NextConfig ==
    \/ signup
    \/ setup_integrations
    \/ add_service
    \/ settings_update_email_integration
    \/ update_email_integration
    \/ update_sms_integration
    \/ google_callback
    \/ disconnect_google_calendar
    \/ ai_complete_setup

SpecConfig == Init /\ [][NextConfig]_vars

\* Signup and the routes of the onboarding wizard, from the empty database.
NextOnboarding ==
    \/ signup
    \/ setup_integrations
    \/ setup_contact_form
    \/ add_service
    \/ create_post_booking_form
    \/ create_inventory_item
    \/ invite_staff
    \/ activate_workspace
    \/ ai_complete_setup

SpecOnboarding == Init /\ [][NextOnboarding]_vars

\* One tenant as the configuration routes leave it: signed up, one service
\* added, no EMAIL row or an active one (with a key the provider accepts or
\* rejects) and email_configured accordingly, no SMS row or an active one,
\* a CALENDAR row connected or disconnected.
Configured ==
    \E key \in ApiKeys \cup {NoneStr}, sms \in BOOLEAN, cal \in BOOLEAN :
        /\ settings = [BREVO_API_KEY |-> NoneStr, TWILIO |-> FALSE]
        /\ users = << [email |-> "owner@x.com", role |-> "owner",
                       workspace_id |-> 1] >>
        /\ workspaces = << [email_configured |-> key # NoneStr,
                            sms_configured |-> sms, onboarding_step |-> 4] >>
        /\ integrations =
              Append(Append1(Append1(<<>>, key # NoneStr,
                                     IntegrationRow(1, "email", key, TRUE)),
                             sms, IntegrationRow(1, "sms", "credentials", TRUE)),
                     IntegrationRow(1, "calendar", "credentials", cal))
        /\ services = {1}
        /\ contacts = <<>>
        /\ conversations = <<>>
        /\ messages = <<>>
        /\ bookings = <<>>
        /\ now = 0
        /\ reminders = <<>>
        /\ work = 0
        /\ lastOp = NoRequest
        /\ inflight = NoSweeps

\* The event handlers and the reminder sweep, at one instant.
Next ==
    \/ submit_contact_form
    \/ create_booking
    \/ update_booking_status
    \/ invite_staff_member
    \/ reply_to_conversation
    \/ send_booking_reminders

Spec == Configured /\ [][Next]_vars

\* Bookings, their status changes, the reminder sweep and the clock.
NextSweep ==
    \/ create_booking
    \/ update_booking_status
    \/ send_booking_reminders
    \/ Tick

SpecSweep == Configured /\ [][NextSweep]_vars

\* Bookings with or without a customer email and their status changes.
NextBookings ==
    \/ create_booking_blank
    \/ update_booking_status

SpecBookings == Configured /\ [][NextBookings]_vars

\* Bookings with or without a customer email and the reminder sweep, at one
\* instant.
NextReminders ==
    \/ create_booking_blank
    \/ send_booking_reminders

SpecReminders == Configured /\ [][NextReminders]_vars

\* Bookings and invocations of the reminder sweep that may overlap.
NextOverlap ==
    \/ create_booking
    \/ sweep_select
    \/ sweep_send

\* The configured tenant with no SMS and no connected calendar: the sweep
\* sends email only.
ConfiguredEmail ==
    /\ Configured
    /\ ActiveIntegrations(integrations, 1, "sms") = {}
    /\ ActiveIntegrations(integrations, 1, "calendar") = {}

SpecOverlap == ConfiguredEmail /\ [][NextOverlap]_vars

\* Two tenants after signup and onboarding: tenant 1 with an active row of
\* each type, tenant 2 with none yet. One event request is left to handle.
TwoTenants ==
    /\ settings = [BREVO_API_KEY |-> NoneStr, TWILIO |-> FALSE]
    /\ users = << [email |-> "owner@x.com", role |-> "owner", workspace_id |-> 1],
                  [email |-> "owner2@x.com", role |-> "owner", workspace_id |-> 2] >>
    /\ workspaces = << [email_configured |-> TRUE, sms_configured |-> TRUE,
                        onboarding_step |-> 4],
                       [email_configured |-> FALSE, sms_configured |-> FALSE,
                        onboarding_step |-> 4] >>
    /\ integrations = << IntegrationRow(1, "email", "valid", TRUE),
                         IntegrationRow(1, "sms", "credentials", TRUE),
                         IntegrationRow(1, "calendar", "credentials", TRUE) >>
    /\ services = {1}
    /\ contacts = <<>>
    /\ conversations = <<>>
    /\ messages = <<>>
    /\ bookings = <<>>
    /\ now = 0
    /\ reminders = <<>>
    /\ work = MaxWork - 3
    /\ lastOp = NoRequest
    /\ inflight = NoSweeps

\* Configuration and disconnect routes of both tenants, interleaved with an
\* event of either tenant.
NextTenants ==
    \/ settings_update_email_integration
    \/ update_sms_integration
    \/ google_callback
    \/ disconnect_google_calendar
    \/ create_booking
    \/ invite_staff_member

SpecTenants == TwoTenants /\ [][NextTenants]_vars

\* ------------------------------------------------------------- properties
\* The handlers that dispatch notifications after their commit.
EventOps ==
    {"submit_contact_form", "create_booking", "update_booking_status",
     "invite_staff_member", "reply_to_conversation"}

\* Every send_email call of the last operation.
EmailSends(op) ==
    {op.email} \cup {op.sweep_sends[b] : b \in op.selected}

NoActiveEmail(w) == ActiveIntegrations(integrations, w, "email") = {}

\* C1: for a workspace with no active EMAIL integration, an event handler
\* and the reminder sweep make no call to the email provider and return
\* normally.
C1_NoEmailIntegrationNoProviderCall ==
    /\ (/\ lastOp.op \in EventOps
        /\ lastOp.w \in DOMAIN workspaces
        /\ NoActiveEmail(lastOp.w))
       => /\ ~lastOp.email.called
          /\ lastOp.email.provider = NoneStr
          /\ ~lastOp.escaped
    /\ lastOp.op = "send_booking_reminders"
       => /\ ~lastOp.escaped
          /\ \A b \in lastOp.selected :
                NoActiveEmail(bookings[b].workspace_id)
                => ~lastOp.sweep_sends[b].called

\* A status change with notification reached send_email for a workspace
\* without an active EMAIL integration, and the request returned 200.
C1_Witness ==
    /\ lastOp.op = "update_booking_status"
    /\ NoActiveEmail(lastOp.w)
    /\ lastOp.email.attempted
    /\ lastOp.email.raised
    /\ lastOp.http = 200

\* C2: when the stored API key is invalid and the provider answers, send_email
\* returns success = False with an error, and no exception leaves the handler
\* or the sweep.
C2_InvalidKeyIsFailureNotException ==
    \A res \in EmailSends(lastOp) :
        (/\ res.called
         /\ integrations[res.integration].config # "valid"
         /\ res.provider # "TransportError")
        => /\ res.provider = "ApiException"
           /\ ~res.raised
           /\ ~res.success
           /\ res.error # NoneStr
           /\ ~lastOp.escaped
           /\ lastOp.op \in EventOps => lastOp.http = 200

\* The sweep sent a reminder with an invalid key and counted it.
C2_Witness ==
    /\ lastOp.op = "send_booking_reminders"
    /\ \E b \in lastOp.selected :
          /\ lastOp.sweep_sends[b].called
          /\ integrations[lastOp.sweep_sends[b].integration].config = "invalid"
          /\ ~lastOp.sweep_sends[b].success
    /\ lastOp.returned > 0

\* The row a committed <<table, id, row>> names, as it is now.
RowPresent(t) ==
    CASE t[1] = "contacts" -> t[2] \in DOMAIN contacts
      [] t[1] = "conversations" -> t[2] \in DOMAIN conversations
      [] t[1] = "messages" -> t[2] \in DOMAIN messages
      [] t[1] = "bookings" -> t[2] \in DOMAIN bookings
      [] t[1] = "users" -> t[2] \in DOMAIN users

CurrentRow(t) ==
    CASE t[1] = "contacts" -> contacts[t[2]]
      [] t[1] = "conversations" -> conversations[t[2]]
      [] t[1] = "messages" -> messages[t[2]]
      [] t[1] = "bookings" -> bookings[t[2]]
      [] t[1] = "users" -> users[t[2]]

\* C3 as stated: whatever the channels did, the rows committed before
\* dispatch are present and unchanged, and the response reports success.
C3_PrimaryRowsUnchanged ==
    (lastOp.op \in EventOps /\ lastOp.committed # <<>>)
    => /\ lastOp.success
       /\ lastOp.http = 200
       /\ \A k \in DOMAIN lastOp.committed :
             /\ RowPresent(lastOp.committed[k])
             /\ CurrentRow(lastOp.committed[k]) = lastOp.committed[k][3]

\* C3: whatever the channels did, the rows committed before dispatch are
\* present and the response reports success; the rows are unchanged except
\* that a successful calendar insert stores its event id in the new booking.
C3_PrimaryRowsKept ==
    (lastOp.op \in EventOps /\ lastOp.committed # <<>>)
    => /\ lastOp.success
       /\ lastOp.http = 200
       /\ \A k \in DOMAIN lastOp.committed :
             LET t == lastOp.committed[k] IN
             /\ RowPresent(t)
             /\ IF t[1] = "bookings" /\ lastOp.op = "create_booking"
                THEN /\ [CurrentRow(t) EXCEPT !.calendar_event_id = NoneStr] = t[3]
                     /\ CurrentRow(t).calendar_event_id # NoneStr
                        <=> lastOp.cal.success
                ELSE CurrentRow(t) = t[3]

\* A booking whose calendar insert, email and SMS all failed.
C3_Witness ==
    /\ lastOp.op = "create_booking"
    /\ lastOp.cal.called /\ ~lastOp.cal.success
    /\ lastOp.email.raised
    /\ lastOp.sms.called /\ ~lastOp.sms.success
    /\ lastOp.success
    /\ bookings[lastOp.booking] = lastOp.committed[2][3]

\* C4: a sweep at time T selects exactly the pending or confirmed bookings
\* starting between T + 23 h and T + 25 h, both edges included.
C4_WindowInclusive ==
    (lastOp.op = "send_booking_reminders" /\ lastOp.error = NoneStr)
    => \A b \in DOMAIN bookings :
          b \in lastOp.selected
          <=> /\ bookings[b].status \in {"pending", "confirmed"}
              /\ bookings[b].booking_date >= lastOp.at + 1380
              /\ bookings[b].booking_date <= lastOp.at + 1500

\* A sweep took a confirmed booking that starts exactly 25 h later.
C4_Witness ==
    /\ lastOp.op = "send_booking_reminders"
    /\ \E b \in lastOp.selected :
          /\ bookings[b].booking_date = lastOp.at + 1500
          /\ bookings[b].status = "confirmed"
          /\ lastOp.sweep_sends[b].attempted

\* The booking is in the window of a sweep at time t and has an email address.
ReminderDue(t, b) ==
    /\ bookings[b].status \in {"pending", "confirmed"}
    /\ bookings[b].booking_date >= t + 1380
    /\ bookings[b].booking_date <= t + 1500
    /\ Truthy(contacts[bookings[b].contact_id].email)

\* C5: every sweep run sends a reminder for each booking in its window,
\* however many reminders the booking already got.
C5_SweepNotIdempotent ==
    [][(/\ work' = work + 1
        /\ now' = now
        /\ lastOp'.op = "send_booking_reminders"
        /\ lastOp'.error = NoneStr)
       => \A b \in DOMAIN bookings :
             ReminderDue(now, b)
             => /\ b \in lastOp'.selected
                /\ lastOp'.sweep_sends[b].attempted
                /\ reminders'[b] = reminders[b] + 1]_vars

\* One booking, then two sweeps at the same instant: two reminders sent.
C5_Witness ==
    /\ work = 5
    /\ now = 0
    /\ lastOp.op = "send_booking_reminders"
    /\ \E b \in lastOp.selected :
          /\ reminders[b] = 2
          /\ lastOp.sweep_sends[b].called
          /\ lastOp.sweep_sends[b].success
    /\ lastOp.returned = 1

\* C6: with an active SMS integration, a booking with a phone number makes
\* one SMS send attempt and a booking without one makes none.
C6_SmsIffPhone ==
    (/\ lastOp.op = "create_booking"
     /\ lastOp.http = 200
     /\ ActiveIntegrations(integrations, lastOp.w, "sms") # {})
    => /\ lastOp.arg_phone # NoneStr
          => /\ lastOp.sms.attempted
             /\ lastOp.sms.called
             /\ lastOp.sms.integration
                   \in ActiveIntegrations(integrations, lastOp.w, "sms")
       /\ lastOp.arg_phone = NoneStr
          => /\ ~lastOp.sms.attempted
             /\ ~lastOp.sms.called

\* A booking without a phone number in a workspace with active SMS.
C6_Witness ==
    /\ lastOp.op = "create_booking"
    /\ lastOp.http = 200
    /\ ActiveIntegrations(integrations, lastOp.w, "sms") # {}
    /\ lastOp.arg_phone = NoneStr
    /\ lastOp.email.success

\* C7: a status change to "pending" or "no_show" sends nothing and appends
\* no message, whatever the notification flag.
C7_NoTemplateNoNotification ==
    (/\ lastOp.op = "update_booking_status"
     /\ lastOp.arg_status \in {"pending", "no_show"})
    => /\ ~lastOp.email.attempted
       /\ ~lastOp.sms.attempted
       /\ Len(messages) = lastOp.msgs_before

\* An accepted change to "pending" with the notification flag set, for a
\* booking whose workspace has an active EMAIL integration.
C7_Witness ==
    /\ lastOp.op = "update_booking_status"
    /\ lastOp.arg_status = "pending"
    /\ lastOp.arg_notify
    /\ lastOp.http = 200
    /\ ~NoActiveEmail(lastOp.w)
    /\ lastOp.flags.notification_sent

OnlyEmailActive(w) ==
    /\ ActiveIntegrations(integrations, w, "email") # {}
    /\ ActiveIntegrations(integrations, w, "sms") = {}
    /\ ActiveIntegrations(integrations, w, "calendar") = {}

\* The automated email records of a conversation.
EmailAutomated(conv) ==
    {m \in DOMAIN messages :
        /\ messages[m].conversation_id = conv
        /\ messages[m].channel = "email"
        /\ messages[m].is_automated}

ContactFormOnlyEmail ==
    /\ lastOp.op = "submit_contact_form"
    /\ lastOp.http = 200
    /\ lastOp.arg_email # NoneStr
    /\ OnlyEmailActive(lastOp.w)

\* C8 as stated: a contact form with an email address, in a workspace whose
\* only active integration is EMAIL, appends exactly one automated email
\* record to the new conversation and attempts no SMS and no calendar call.
C8_ExactlyOneEmailRecord ==
    ContactFormOnlyEmail
    => /\ Cardinality(EmailAutomated(lastOp.conv)) = 1
       /\ ~lastOp.sms.attempted
       /\ ~lastOp.cal.attempted

\* C8: such a contact form makes one email send, appends one automated email
\* record when the send succeeds and none when it fails, and attempts no SMS
\* and no calendar call.
C8_EmailRecordIffSent ==
    ContactFormOnlyEmail
    => /\ lastOp.email.attempted
       /\ lastOp.email.called
       /\ Cardinality(EmailAutomated(lastOp.conv))
             = IF lastOp.email.success THEN 1 ELSE 0
       /\ ~lastOp.sms.attempted
       /\ ~lastOp.cal.attempted

\* Such a contact form whose send the provider rejected: no email record.
C8_Witness ==
    /\ ContactFormOnlyEmail
    /\ lastOp.email.provider = "ApiException"
    /\ EmailAutomated(lastOp.conv) = {}
    /\ lastOp.success

\* C9 as stated: send_email never raises; every failure is returned as
\* success = False with an error.
C9_SendEmailNeverRaises ==
    \A res \in EmailSends(lastOp) :
        res.attempted => ~res.raised

\* C10 as stated: send_sms never raises; every failure is returned as
\* success = False with an error.
C10_SendSmsNeverRaises ==
    lastOp.sms.attempted => ~lastOp.sms.raised

\* C11 as stated: the value a sweep returns is the number of reminder emails
\* whose send returned success = True in that run.
C11_ReturnCountsSuccesses ==
    (lastOp.op = "send_booking_reminders" /\ lastOp.error = NoneStr)
    => lastOp.returned
          = Cardinality({b \in lastOp.selected : lastOp.sweep_sends[b].success})

\* C12: a failure on one selected booking does not stop the sweep: a send is
\* attempted for every selected booking whose contact has an email address,
\* and for no other.
C12_SweepGoesOn ==
    (lastOp.op = "send_booking_reminders" /\ lastOp.error # "query")
    => /\ lastOp.error = NoneStr
       /\ \A b \in lastOp.selected :
             lastOp.sweep_sends[b].attempted
             <=> Truthy(contacts[bookings[b].contact_id].email)

\* The send for the first selected booking raised, the second booking was
\* still processed and its reminder sent.
C12_Witness ==
    /\ lastOp.op = "send_booking_reminders"
    /\ \E b, c \in lastOp.selected :
          /\ b < c
          /\ lastOp.sweep_sends[b].raised
          /\ lastOp.sweep_sends[c].called
          /\ lastOp.sweep_sends[c].success

\* The send used a row of workspace w and type t that is active.
OwnIntegration(res, w, t) ==
    res.integration # None
    => /\ res.integration \in DOMAIN integrations
       /\ integrations[res.integration].workspace_id = w
       /\ integrations[res.integration].type = t
       /\ integrations[res.integration].is_active

\* C13: every send made for an event of a tenant uses an integration row of
\* that tenant, of the channel's type, that is active, whatever configuration
\* and disconnect requests of either tenant came before.
C13_TenantIsolation ==
    lastOp.op \in EventOps
    => /\ OwnIntegration(lastOp.email, lastOp.w, "email")
       /\ OwnIntegration(lastOp.sms, lastOp.w, "sms")
       /\ OwnIntegration(lastOp.cal, lastOp.w, "calendar")
       /\ \A res \in {lastOp.email, lastOp.sms, lastOp.cal} :
             res.called => res.integration # None

\* A booking of tenant 2 reached all three providers while tenant 1 had an
\* active row of each type as well.
C13_Witness ==
    /\ lastOp.op = "create_booking"
    /\ lastOp.w = 2
    /\ lastOp.email.called
    /\ lastOp.sms.called
    /\ lastOp.cal.called
    /\ \A t \in {"email", "sms", "calendar"} :
          ActiveIntegrations(integrations, 1, t) # {}

\* C14 as stated: the manual trigger answers success = True with the count
\* when the sweep completes, and success = False with an error string when
\* the sweep fails, as when selecting the bookings raises.
C14_TriggerReportsFailure ==
    lastOp.op = "send_booking_reminders"
    => IF lastOp.error = NoneStr
       THEN lastOp.success /\ lastOp.resp_error = NoneStr
       ELSE ~lastOp.success /\ lastOp.resp_error # NoneStr

\* The messages the last operation appended.
Appended == (lastOp.msgs_before + 1)..Len(messages)

\* C15 as stated: in contact-form submit, booking create and booking status
\* change, an automated email or sms record is appended only when the send
\* on that channel returned success = True.
C15_RecordOnlyAfterSuccess ==
    lastOp.op \in {"submit_contact_form", "create_booking",
                   "update_booking_status"}
    => \A m \in Appended :
          /\ (messages[m].is_automated /\ messages[m].channel = "email")
             => lastOp.email.success
          /\ (messages[m].is_automated /\ messages[m].channel = "sms")
             => lastOp.sms.success

\* C16: a contact-form submission attempts the welcome email exactly when an
\* email address was given and the workspace's email_configured flag is set;
\* the contact, the conversation and the initial message exist either way.
C16_WelcomeEmailGate ==
    (lastOp.op = "submit_contact_form" /\ lastOp.http = 200)
    => /\ lastOp.email.attempted
          <=> (lastOp.arg_email # NoneStr /\ workspaces[lastOp.w].email_configured)
       /\ Len(lastOp.committed) = 3
       /\ \A k \in DOMAIN lastOp.committed :
             /\ RowPresent(lastOp.committed[k])
             /\ CurrentRow(lastOp.committed[k]) = lastOp.committed[k][3]
       /\ {lastOp.committed[k][1] : k \in DOMAIN lastOp.committed}
             = {"contacts", "conversations", "messages"}

\* A submission with an email address to a workspace without email
\* configured: no send, the three rows created.
C16_Witness ==
    /\ lastOp.op = "submit_contact_form"
    /\ lastOp.http = 200
    /\ lastOp.arg_email # NoneStr
    /\ ~workspaces[lastOp.w].email_configured
    /\ ~lastOp.email.attempted
    /\ Len(lastOp.committed) = 3

\* The workspace has an active CALENDAR row that holds credentials.
CalendarReady(w) ==
    \E i \in ActiveIntegrations(integrations, w, "calendar") :
        integrations[i].config = "credentials"

\* C17 as stated: a booking calls the calendar provider exactly when the
\* workspace has an active CALENDAR integration with credentials, and
\* attempts the confirmation email exactly when email_configured is set.
C17_BookingGates ==
    (lastOp.op = "create_booking" /\ lastOp.http = 200)
    => /\ lastOp.cal.called <=> CalendarReady(lastOp.w)
       /\ lastOp.email.attempted <=> workspaces[lastOp.w].email_configured

\* C17: a booking calls the calendar provider exactly when the workspace has
\* an active CALENDAR integration with credentials, and attempts the
\* confirmation email exactly when email_configured is set and the
\* customer_email is not empty.
C17_BookingGatesWithAddress ==
    (lastOp.op = "create_booking" /\ lastOp.http = 200)
    => /\ lastOp.cal.called <=> CalendarReady(lastOp.w)
       /\ lastOp.email.attempted
          <=> (workspaces[lastOp.w].email_configured /\ lastOp.arg_email # "")

\* A booking with an empty customer_email in a workspace with email
\* configured and the calendar connected: calendar called, no email send.
C17_Witness ==
    /\ lastOp.op = "create_booking"
    /\ lastOp.http = 200
    /\ lastOp.arg_email = ""
    /\ workspaces[lastOp.w].email_configured
    /\ ~lastOp.email.attempted
    /\ lastOp.cal.called

StatusChanged == lastOp.op = "update_booking_status" /\ lastOp.http = 200

\* C18 as stated: a status change attempts the notification email exactly
\* when notification was requested, the new status is confirmed, cancelled or
\* completed, and the workspace has email configured.
C18_StatusEmailGate ==
    StatusChanged
    => (lastOp.email.attempted
        <=> /\ lastOp.arg_notify
            /\ lastOp.arg_status \in {"confirmed", "cancelled", "completed"}
            /\ workspaces[lastOp.w].email_configured)

\* C18: a status change attempts the notification email exactly when
\* notification was requested, the new status is confirmed, cancelled or
\* completed, and the booking's contact has a conversation and an email
\* address; email_configured is not consulted.
C18_StatusEmailGateNoFlag ==
    StatusChanged
    => (lastOp.email.attempted
        <=> /\ lastOp.arg_notify
            /\ lastOp.arg_status \in {"confirmed", "cancelled", "completed"}
            /\ lastOp.conv # None
            /\ Truthy(lastOp.arg_email))

\* A requested notification for a confirmed booking in a workspace without
\* email configured: send_email was called and raised.
C18_Witness ==
    /\ StatusChanged
    /\ lastOp.arg_notify
    /\ lastOp.arg_status = "confirmed"
    /\ ~workspaces[lastOp.w].email_configured
    /\ lastOp.email.attempted
    /\ lastOp.email.raised

\* C19: an invitation that passes validation attempts the invitation email,
\* whatever email_configured says, after the staff user is committed; the
\* user row stays whatever the send did, and a rejected invitation sends
\* nothing.
C19_InviteAlwaysSends ==
    lastOp.op = "invite_staff_member"
    => IF lastOp.http = 200
       THEN /\ lastOp.email.attempted
            /\ Len(lastOp.committed) = 1
            /\ lastOp.committed[1][1] = "users"
            /\ RowPresent(lastOp.committed[1])
            /\ CurrentRow(lastOp.committed[1]) = lastOp.committed[1][3]
            /\ CurrentRow(lastOp.committed[1]).email = lastOp.arg_email
       ELSE /\ ~lastOp.email.attempted
            /\ lastOp.committed = <<>>

\* An invitation in a workspace without email configured: the send raised
\* and the staff user exists.
C19_Witness ==
    /\ lastOp.op = "invite_staff_member"
    /\ lastOp.http = 200
    /\ ~workspaces[lastOp.w].email_configured
    /\ lastOp.email.raised
    /\ \E u \in DOMAIN users :
          users[u].email = lastOp.arg_email /\ users[u].role = "staff"

\* C20: a step never sends a reminder for a booking whose status at that
\* time is neither pending nor confirmed.
C20_NoReminderAfterCancel ==
    [][\A b \in DOMAIN bookings :
          bookings[b].status \notin {"pending", "confirmed"}
          => reminders'[b] = reminders[b]]_vars

\* A sweep ran over a cancelled booking inside the window and sent nothing.
C20_Witness ==
    /\ lastOp.op = "send_booking_reminders"
    /\ lastOp.error = NoneStr
    /\ \E b \in DOMAIN bookings :
          /\ bookings[b].status = "cancelled"
          /\ bookings[b].booking_date >= lastOp.at + 1380
          /\ bookings[b].booking_date <= lastOp.at + 1500
          /\ reminders[b] = 0
          /\ b \notin lastOp.selected

\* C21: the sweep takes no lock: an invocation selects every booking of the
\* window, those another running invocation holds included, and sends one
\* reminder for each sendable booking it selected, whatever was sent before.
C21_OverlappingSweepsBothSend ==
    [][\A p \in Sweepers :
          /\ (inflight[p].pc = "idle" /\ inflight'[p].pc = "selected")
                => inflight'[p].selected = bookings_to_remind(now)
          /\ (inflight[p].pc = "selected" /\ inflight'[p].pc = "idle")
                => \A b \in inflight[p].selected :
                      reminder_sendable(b) => reminders'[b] = reminders[b] + 1
      ]_vars

\* Two overlapping invocations have both returned, and a booking both had
\* selected has two reminders, the later one accepted by the provider.
C21_Witness ==
    \E b \in DOMAIN bookings :
        /\ \A p \in Sweepers : inflight[p].pc = "idle"
        /\ \E p \in Sweepers : b \in inflight[p].shared
        /\ reminders[b] = 2
        /\ lastOp.op = "send_booking_reminders"
        /\ b \in lastOp.selected
        /\ lastOp.sweep_sends[b].success

\* C22: dispatch never writes integration state: a step of an event handler
\* or of the sweep leaves every Integration row (tenant, type, config,
\* is_active) and every workspace's email_configured and sms_configured as
\* they were, whether its sends succeeded or failed.
C22_DispatchKeepsIntegrations ==
    [][lastOp'.op \in EventOps \cup {"send_booking_reminders"}
          => /\ integrations' = integrations
             /\ DOMAIN workspaces' = DOMAIN workspaces
             /\ \A w \in DOMAIN workspaces :
                   /\ workspaces'[w].email_configured = workspaces[w].email_configured
                   /\ workspaces'[w].sms_configured = workspaces[w].sms_configured
      ]_vars

\* A booking whose email the provider accepted and whose SMS it refused: both
\* rows are still active.
C22_Witness ==
    /\ lastOp.op = "create_booking"
    /\ lastOp.email.called /\ lastOp.email.success
    /\ lastOp.sms.called /\ ~lastOp.sms.success
    /\ integrations[lastOp.email.integration].is_active
    /\ integrations[lastOp.sms.integration].is_active

\* C23: disconnecting the calendar deactivates the tenant's CALENDAR row and
\* deletes nothing; while no CALENDAR row of the tenant is active a booking
\* makes no calendar provider call; and an OAuth callback of a tenant that has
\* a CALENDAR row reactivates that row instead of adding a second one.
C23_DisconnectKeepsRow ==
    [][LET w == lastOp'.w
           rows == IntegrationsOf(integrations, w, "calendar")
       IN  /\ (lastOp'.op = "disconnect_google_calendar" /\ lastOp'.success)
                => /\ rows # {}
                   /\ IntegrationsOf(integrations', w, "calendar") = rows
                   /\ ActiveIntegrations(integrations', w, "calendar") = {}
                   /\ Len(integrations') = Len(integrations)
           /\ (lastOp'.op = "create_booking" /\
                ActiveIntegrations(integrations, w, "calendar") = {})
                => ~lastOp'.cal.called
           /\ (lastOp'.op = "google_callback" /\ rows # {})
                => /\ Len(integrations') = Len(integrations)
                   /\ IntegrationsOf(integrations', w, "calendar") = rows
                   /\ ActiveIntegrations(integrations', w, "calendar") = rows
      ]_vars

\* A booking of tenant 1 accepted after its calendar was disconnected: the
\* row is there, inactive, and no calendar call was made.
C23_Witness ==
    /\ lastOp.op = "create_booking"
    /\ lastOp.w = 1
    /\ lastOp.http = 200
    /\ ~lastOp.cal.called
    /\ IntegrationsOf(integrations, 1, "calendar") # {}
    /\ ActiveIntegrations(integrations, 1, "calendar") = {}

\* C24: whatever requests of signup, onboarding integration setup, AI setup,
\* settings email update, integrations email and SMS update, OAuth callback
\* and disconnect have been handled, one after the other, every tenant has
\* at most one Integration row of each type.
C24_OneRowPerTenantAndType ==
    \A w \in WorkspaceIds, t \in {"email", "sms", "calendar"} :
        Cardinality(IntegrationsOf(integrations, w, t)) <= 1

\* AI setup has run for a tenant that signup had given an EMAIL row, and the
\* tenant has one row of each type.
C24_Witness ==
    /\ lastOp.op = "ai_complete_setup"
    /\ lastOp.http = 200
    /\ Truthy(settings.BREVO_API_KEY)
    /\ \A t \in {"email", "sms", "calendar"} :
          Cardinality(IntegrationsOf(integrations, lastOp.w, t)) = 1

\* C25: in every state the configuration routes reach, a tenant's
\* email_configured is true exactly when it has an active EMAIL row, and its
\* sms_configured is true exactly when it has an active SMS row.
C25_FlagsMatchActiveRows ==
    \A w \in DOMAIN workspaces :
        /\ workspaces[w].email_configured
              <=> ActiveIntegrations(integrations, w, "email") # {}
        /\ workspaces[w].sms_configured
              <=> ActiveIntegrations(integrations, w, "sms") # {}

C27_FlagsMeanSent ==
    LET sent(res) == res.attempted /\ ~res.raised /\ res.success
    IN  /\ lastOp.flags.notification_sent => sent(lastOp.email)
        /\ lastOp.flags.confirmation_sent => sent(lastOp.email)
        /\ lastOp.flags.sms_sent => sent(lastOp.sms)
        /\ lastOp.flags.email_sent => sent(lastOp.email)

\* C28: an inbox reply to an existing conversation is recorded whatever the
\* send does: the reply message is appended, every customer message of the
\* conversation is read, the conversation is ongoing, the response is a
\* success whose "sent" is true exactly when a send on the requested channel
\* was attempted and returned success, and no sender exception leaves the
\* handler.
C28_ReplyRecordedWhateverTheSend ==
    (lastOp.op = "reply_to_conversation" /\ lastOp.http # 404) =>
        LET conv == lastOp.conv
            asked == IF lastOp.arg_status = "email" THEN lastOp.email
                     ELSE lastOp.sms
            other == IF lastOp.arg_status = "email" THEN lastOp.sms
                     ELSE lastOp.email
        IN  /\ lastOp.http = 200 /\ lastOp.success /\ ~lastOp.escaped
            /\ Len(messages) = lastOp.msgs_before + 1
            /\ messages[Len(messages)] =
                  MessageRow(conv, "reply", lastOp.arg_status, FALSE, FALSE, TRUE)
            /\ \A m \in DOMAIN messages :
                  (messages[m].conversation_id = conv /\ messages[m].is_from_customer)
                      => messages[m].is_read
            /\ conversations[conv].status = "ongoing"
            /\ ~other.attempted
            /\ lastOp.flags.sent
                  <=> (asked.attempted /\ ~asked.raised /\ asked.success)

\* A reply to a contact-form conversation whose send raised: the reply is
\* there, the customer's message is read, and "sent" is false.
C28_Witness ==
    /\ lastOp.op = "reply_to_conversation"
    /\ lastOp.http = 200
    /\ lastOp.arg_status = "email"
    /\ lastOp.email.attempted /\ lastOp.email.raised
    /\ ~lastOp.flags.sent
    /\ messages[Len(messages)].content = "reply"
    /\ \E m \in DOMAIN messages :
          /\ messages[m].conversation_id = lastOp.conv
          /\ messages[m].is_from_customer
          /\ messages[m].is_read
          /\ messages[m].content = "initial"

\* C29: a status change naming an unknown booking is answered 404, and one
\* naming a known booking with a status outside pending, confirmed,
\* completed, cancelled is answered 400; in both cases no table changes (the
\* booking keeps its status, no message is recorded) and nothing is sent.
C29_BadStatusChangesNothing ==
    [][LET req == lastOp'
           unknown == req.booking \notin DOMAIN bookings
           invalid == req.arg_status \notin
                         {"pending", "confirmed", "completed", "cancelled"}
       IN  (req.op = "update_booking_status" /\ (unknown \/ invalid))
              => /\ req.http = IF unknown THEN 404 ELSE 400
                 /\ ~req.success
                 /\ dbVars' = dbVars
                 /\ req.committed = <<>>
                 /\ \A res \in SendsOf(req) : ~res.attempted
      ]_vars

\* A status change of an existing booking to a status that does not exist
\* was answered 400; the booking is still pending.
C29_Witness ==
    /\ lastOp.op = "update_booking_status"
    /\ lastOp.booking \in DOMAIN bookings
    /\ lastOp.arg_status = "no_show"
    /\ lastOp.arg_notify
    /\ lastOp.http = 400
    /\ bookings[lastOp.booking].status = "pending"

\* C30: no onboarding operation (integrations, contact form, services,
\* post-booking forms, inventory, staff, activate, AI setup) makes a
\* workspace's onboarding_step smaller.
C30_StepNeverDecreases ==
    [][\A w \in DOMAIN workspaces :
          workspaces'[w].onboarding_step >= workspaces[w].onboarding_step]_vars

====
